---- MODULE Spec2Model ----
(***************************************************************************)
(* A model of automl/results.py: the Scoreboard (file naming, scope        *)
(* resolution, save/append), TaskResult (loading, memoised results,        *)
(* scoring) and the Result variants (metric dispatch by attribute lookup). *)
(*                                                                         *)
(* Five specifications share the variables:                                *)
(*   SpecNames  Scoreboard._score_file and Scoreboard.from_file            *)
(*   SpecTask   TaskResult and the Result variants over predictions files  *)
(*   SpecEval   Result.evaluate and compute_scores on a Result in hand      *)
(*   SpecSave   Scoreboard.save over the scope's file                       *)
(*   SpecAppend Scoreboard.append                                           *)
(* Each leaves the other parts' variables at their initial values.         *)
(*                                                                         *)
(* Python strings that the code formats or matches are sequences of        *)
(* one-character strings, so that format() and re.fullmatch() are computed *)
(* and not assumed to invert each other.                                   *)
(***************************************************************************)
EXTENDS Naturals, Integers, Sequences, FiniteSets, TLC

VARIABLES
    \* SpecNames
    scope,        \* the Scope a Scoreboard was constructed with
    score_path,   \* what _score_file returned for it (a path), or NoPath
    resolved,     \* what from_file returned for a path, or NotCalled
    \* SpecTask
    pred_fs,      \* predictions directory: basename -> artifact or Missing
    tasks,        \* the TaskResult objects constructed so far
    memo,         \* memoize's table of get_result: <<object, framework>> -> Result
    next_id,      \* identity of the next Result object allocated
    called,       \* the memo keys get_result was called with so far
    subject,      \* the Result the caller holds (the last one returned to it)
    ret,          \* the last call and what it returned or raised
    \* SpecBoard
    score_fs,     \* scores directory: the scope's file, a sequence of lines, or NoFile
    backups,      \* contents preserved by backup_file
    boards,       \* the Scoreboard objects constructed so far
    saves,        \* number of save calls made so far
    bret          \* the last Scoreboard call and what it did

vars == <<scope, score_path, resolved, pred_fs, tasks, memo, next_id, called, subject, ret,
          score_fs, backups, boards, saves, bret>>

nameVars == <<scope, score_path, resolved>>
taskVars == <<pred_fs, tasks, memo, next_id, called, subject, ret>>
boardVars == <<score_fs, backups, boards, saves, bret>>

(***************************************************************************)
(* Python values and strings                                               *)
(***************************************************************************)

\* Python's None, False and str values. A str carries its characters.
None == [tag |-> "None", s |-> <<>>]
False == [tag |-> "False", s |-> <<>>]
Str(chars) == [tag |-> "str", s |-> chars]

\* Python truthiness of None, False and str: only a non-empty str is true.
Truthy(v) == v.tag = "str" /\ v.s # <<>>

Letters == {"a", "b", "c", "e", "h", "k", "l", "m", "n", "r", "s", "t", "u", "v",
            "A", "H", "T"}
Digits == {"0", "1", "2", "3", "4", "5", "6", "7", "8", "9"}

\* The character class [\w\-] of the patterns, over the characters of the model.
WordChars == Letters \cup Digits \cup {"_", "-"}

\* s matches [\w\-]+ from first to last (1-based, inclusive).
IsToken(s, first, last) ==
    /\ first <= last
    /\ \A i \in first..last : s[i] \in WordChars

\* s holds the literal lit at position at.
HasLiteral(s, at, lit) ==
    /\ at >= 1
    /\ at + Len(lit) - 1 <= Len(s)
    /\ SubSeq(s, at, at + Len(lit) - 1) = lit

SetMax(S) == CHOOSE x \in S : \A y \in S : y <= x
SetMin(S) == CHOOSE x \in S : \A y \in S : x <= y

CSV == <<"c", "s", "v">>
TASK == <<"t", "a", "s", "k">>
BENCHMARK == <<"b", "e", "n", "c", "h", "m", "a", "r", "k">>
RESULTS == <<"r", "e", "s", "u", "l", "t", "s">>
US == <<"_">>
DOT == <<".">>

\* The tail ".csv" of every pattern: "." is the regular expression's any
\* character (but a line break, which no name of the model holds), then "csv".
\* body is the index of the last character before it.
HasCsvTail(s, body) ==
    /\ body + 4 = Len(s)
    /\ HasLiteral(s, body + 2, CSV)

(***************************************************************************)
(* Scoreboard: file naming and scope resolution                            *)
(***************************************************************************)

\* rconfig().scores_dir, the directory used when none is given.
ConfigScoresDir == "scores"

\* os.path.join(folder, name) and os.path.split(path), for a path of one
\* directory and a file name.
PathJoin(folder, name) == [folder |-> folder, basename |-> name]
PathSplit(path) == <<path.folder, path.basename>>

NoPath == [folder |-> "", basename |-> <<>>]

\* Scoreboard.results_file
results_file == RESULTS \o DOT \o CSV

\* The object Scoreboard.__init__ builds (its scores apart).
ScoreboardScope(framework_name, benchmark_name, task_name, scores_dir) ==
    [framework_name |-> framework_name,
     benchmark_name |-> benchmark_name,
     task_name |-> task_name,
     scores_dir |-> IF scores_dir # "" THEN scores_dir ELSE ConfigScoresDir]

\* Scoreboard._score_file
_score_file(self) ==
    LET file_name ==
            IF Truthy(self.framework_name)
            THEN IF Truthy(self.task_name)
                 THEN self.framework_name.s \o US \o TASK \o US \o self.task_name.s \o DOT \o CSV
                 ELSE IF Truthy(self.benchmark_name)
                      THEN self.framework_name.s \o US \o BENCHMARK \o US
                               \o self.benchmark_name.s \o DOT \o CSV
                      ELSE self.framework_name.s \o DOT \o CSV
            ELSE IF Truthy(self.task_name)
                 THEN TASK \o US \o self.task_name.s \o DOT \o CSV
                 ELSE IF Truthy(self.benchmark_name)
                      THEN BENCHMARK \o US \o self.benchmark_name.s \o DOT \o CSV
                      ELSE results_file
    IN PathJoin(self.scores_dir, file_name)

\* A match object's groupdict(), or no match.
EmptyDict == [k \in {} |-> <<>>]
NoMatch == [ok |-> FALSE, d |-> EmptyDict]
MatchOf(d) == [ok |-> TRUE, d |-> d]

\* re.fullmatch of a pattern  (?P<g1>[\w\-]+) lit (?P<g2>[\w\-]+) .csv :
\* the first group is greedy, so it ends at the last place that lets the rest
\* of the pattern match.
MatchTwoGroups(b, g1, lit, g2) ==
    LET body == Len(b) - 4
        ends == {i \in 1..Len(b) :
                    /\ IsToken(b, 1, i)
                    /\ HasLiteral(b, i + 1, lit)
                    /\ IsToken(b, i + Len(lit) + 1, body)
                    /\ HasCsvTail(b, body)}
    IN IF ends = {} THEN NoMatch
       ELSE LET i == SetMax(ends)
            IN MatchOf((g1 :> SubSeq(b, 1, i)) @@ (g2 :> SubSeq(b, i + Len(lit) + 1, body)))

\* re.fullmatch of a pattern  lit (?P<g>[\w\-]+) .csv
MatchPrefixGroup(b, lit, g) ==
    LET body == Len(b) - 4
    IN IF /\ HasLiteral(b, 1, lit)
          /\ IsToken(b, Len(lit) + 1, body)
          /\ HasCsvTail(b, body)
       THEN MatchOf(g :> SubSeq(b, Len(lit) + 1, body))
       ELSE NoMatch

\* re.fullmatch of  (?P<g>[\w\-]+) .csv
MatchOneGroup(b, g) ==
    LET body == Len(b) - 4
    IN IF IsToken(b, 1, body) /\ HasCsvTail(b, body)
       THEN MatchOf(g :> SubSeq(b, 1, body))
       ELSE NoMatch

\* re.fullmatch of results_file used as a pattern: its "." is any character.
MatchResultsFile(b) ==
    IF /\ Len(b) = Len(results_file)
       /\ HasLiteral(b, 1, RESULTS)
       /\ HasLiteral(b, Len(RESULTS) + 2, CSV)
    THEN MatchOf(EmptyDict)
    ELSE NoMatch

\* The list `patterns` of from_file, in its order.
NumPatterns == 6
PatternMatch(k, b) ==
    CASE k = 1 -> MatchResultsFile(b)
      [] k = 2 -> MatchTwoGroups(b, "framework", US \o BENCHMARK \o US, "benchmark")
      [] k = 3 -> MatchPrefixGroup(b, BENCHMARK \o US, "benchmark")
      [] k = 4 -> MatchTwoGroups(b, "framework", US \o TASK \o US, "task")
      [] k = 5 -> MatchPrefixGroup(b, TASK \o US, "task")
      [] k = 6 -> MatchOneGroup(b, "framework")

\* 'name' in d and d['name']
GroupOrFalse(d, name) == IF name \in DOMAIN d THEN Str(d[name]) ELSE False

\* What from_file returns when no pattern matches (Python's None).
NoBoard == [found |-> FALSE, framework_name |-> None, benchmark_name |-> None,
            task_name |-> None, scores_dir |-> ""]

\* Scoreboard.from_file: the first pattern of the list that matches decides.
from_file(path) ==
    LET basename == PathSplit(path)[2]
        folder == PathSplit(path)[1]
        hits == {k \in 1..NumPatterns : PatternMatch(k, basename).ok}
    IN IF hits = {} THEN NoBoard
       ELSE LET d == PatternMatch(SetMin(hits), basename).d
                scores_dir == IF folder = "" THEN "" ELSE folder
            IN [found |-> TRUE] @@
               ScoreboardScope(GroupOrFalse(d, "framework"), GroupOrFalse(d, "benchmark"),
                               GroupOrFalse(d, "task"), scores_dir)

\* The identifiers a scope is drawn from: words joined by "_", each a token of
\* [A-Za-z0-9_-]+. The words include the ones the file names are built from.
MaxWords == 2
Words == {<<"a">>, TASK, BENCHMARK, RESULTS}

RECURSIVE IdentsOf(_)
IdentsOf(n) ==
    IF n <= 1 THEN Words
    ELSE {i \o US \o w : i \in IdentsOf(n - 1), w \in Words}

Idents == UNION {IdentsOf(n) : n \in 1..MaxWords}

OptionalIdents == {None} \cup {Str(i) : i \in Idents}

\* Paths that no _score_file call produced, given to from_file by a caller.
ForeignPaths ==
    {PathJoin("", <<"a", ".", "t", "x", "t">>),
     PathJoin("", results_file),
     PathJoin("scores", RESULTS \o US \o CSV)}

NotCalled == [called |-> FALSE, path |-> NoPath, board |-> NoBoard]

\* Scoreboard(framework_name=f, benchmark_name=b, task_name=t), each identifier
\* given or left None.
NamesInit ==
    /\ \E f \in OptionalIdents, b \in OptionalIdents, t \in OptionalIdents :
          scope = ScoreboardScope(f, b, t, ConfigScoresDir)
    /\ score_path = NoPath
    /\ resolved = NotCalled

\* self._score_file() on the constructed Scoreboard.
ScoreFile ==
    /\ score_path = NoPath
    /\ score_path' = _score_file(scope)
    /\ UNCHANGED <<scope, resolved>>

\* Scoreboard.from_file(path) on the path _score_file produced, or on a foreign one.
FromFile ==
    /\ \E path \in (IF score_path = NoPath THEN {} ELSE {score_path}) \cup ForeignPaths :
          resolved' = [called |-> TRUE, path |-> path, board |-> from_file(path)]
    /\ UNCHANGED <<scope, score_path>>

\* An identifier after the round trip: the same token, or absent on both sides
\* (None before, None or False after).
SameIdent(a, b) == IF Truthy(a) \/ Truthy(b) THEN a = b ELSE TRUE

\* C6: from_file on the name _score_file produced returns the same Scope: the
\* same framework, benchmark and task, absent ones staying absent.
C6_FromFileInvertsScoreFile ==
    (resolved.called /\ score_path # NoPath /\ resolved.path = score_path) =>
        /\ resolved.board.found
        /\ SameIdent(scope.framework_name, resolved.board.framework_name)
        /\ SameIdent(scope.benchmark_name, resolved.board.benchmark_name)
        /\ SameIdent(scope.task_name, resolved.board.task_name)

(***************************************************************************)
(* Result variants and metric dispatch                                     *)
(***************************************************************************)

\* Metric values: a float, numpy's NaN, or NoResult's missing_result 'NA'.
Float(n) == [t |-> "float", n |-> n]
NaN == [t |-> "nan", n |-> 0]
NA == [t |-> "NA", n |-> 0]

\* Python's == on metric values: NaN compares unequal to everything, itself
\* included; a float and the str 'NA' are unequal.
PyEq(a, b) == a.t # "nan" /\ b.t # "nan" /\ a = b

\* What a call did: returned a value or raised an error.
NoError == [etype |-> "", msg |-> "", metric |-> "", ptype |-> ""]
NoValue == [t |-> "none", n |-> 0]
Return(v) == [kind |-> "return", value |-> v, error |-> NoError]
Raise(e) == [kind |-> "raise", value |-> NoValue, error |-> e]

\* The errors of the model. UnsupportedMetric is the ValueError of
\* Result.evaluate, "Metric {metric} is not supported for {type}".
UnsupportedMetric(metric, ptype) ==
    [etype |-> "ValueError", msg |-> "Metric is not supported", metric |-> metric,
     ptype |-> ptype]
AucNotBinary ==
    [etype |-> "ValueError", msg |-> "AUC metric is only supported for binary classification",
     metric |-> "", ptype |-> ""]
TypeErrorOf(msg) == [etype |-> "TypeError", msg |-> msg, metric |-> "", ptype |-> ""]
AttributeErrorOf(name) ==
    [etype |-> "AttributeError", msg |-> name, metric |-> "", ptype |-> ""]
IndexErrorOf(msg) == [etype |-> "IndexError", msg |-> msg, metric |-> "", ptype |-> ""]

\* The floats the metric library (accuracy_score, log_loss, mean_squared_error,
\* roc_auc_score) may yield, abstracted to 0..MaxScore.
MaxScore == 1
LibScores == 0..MaxScore

Isqrt(n) == CHOOSE r \in 0..n : r * r = n

\* A Result object: its identity, its class, self.type, and the number of
\* columns of self.df. NoResult.__init__ sets none of df, type, metrics.
ResultObject(id, variant, ptype, ncols) ==
    [id |-> id, variant |-> variant, type |-> ptype, ncols |-> ncols]

\* Result.__init__: the last and the last but one column must exist.
Result__init__(ncols) ==
    IF ncols < 1 THEN Raise(IndexErrorOf("iloc[:, -1]"))
    ELSE IF ncols < 2 THEN Raise(IndexErrorOf("iloc[:, -2]"))
    ELSE Return(NoValue)

\* NoResult()
NoResult(id) == Return(ResultObject(id, "NoResult", "", 0))

\* ClassificationResult(df): the classes are the columns before the last two.
\* The float cast of the probabilities and the label encoder are taken to
\* accept the cells.
ClassificationResult(id, ncols) ==
    IF Result__init__(ncols).kind = "raise" THEN Result__init__(ncols)
    ELSE Return(ResultObject(id, "ClassificationResult",
                             IF ncols - 2 = 2 THEN "binomial" ELSE "multinomial", ncols))

\* RegressionResult(df). The float cast of the truth is taken to accept the cells.
RegressionResult(id, ncols) ==
    IF Result__init__(ncols).kind = "raise" THEN Result__init__(ncols)
    ELSE Return(ResultObject(id, "RegressionResult", "regression", ncols))

\* The metric methods class Result defines (NoResult overrides all five,
\* ClassificationResult overrides auc and logloss).
MetricFunctions == {"acc", "logloss", "mse", "rmse", "auc"}

\* self.metrics as Result.__init__ sets it.
Result_metrics == <<"acc", "logloss", "mse", "rmse", "auc">>

\* The attributes set on the instance by the constructors.
InstanceAttrs(self) ==
    CASE self.variant = "NoResult" -> {"missing_result"}
      [] self.variant = "ClassificationResult" ->
             {"df", "truth", "predictions", "target", "type", "metrics",
              "classes", "probabilities"}
      [] OTHER -> {"df", "truth", "predictions", "target", "type", "metrics"}

\* The other attributes found on the class that take an argument besides self.
MethodsWithArgs(self) ==
    IF self.variant = "ClassificationResult" THEN {"evaluate", "_autoencode"}
    ELSE {"evaluate"}

\* hasattr(self, name), for the names of the model.
hasattr(self, name) ==
    name \in InstanceAttrs(self) \cup MetricFunctions \cup MethodsWithArgs(self)

\* A slip: NoResult without its own auc, so that Result.auc answers.
MetricCall_inherited_auc(self, name) ==
    CASE name = "auc" /\ self.variant # "ClassificationResult" -> {Return(NaN)}
      [] name # "auc" /\ self.variant = "NoResult" -> {Return(NA)}
      [] OTHER -> {Return(Float(v)) : v \in LibScores}

\* The outcomes of calling the metric method `name` of self.
MetricCall(self, name) ==
    CASE self.variant = "NoResult" -> {Return(NA)}
      [] self.variant # "NoResult" /\ name = "mse" ->
             {Return(Float(v * v)) : v \in LibScores}
      [] self.variant # "NoResult" /\ name = "rmse" ->
             {Return(Float(Isqrt(v * v))) : v \in LibScores}
      [] self.variant = "ClassificationResult" /\ name = "auc" ->
             IF self.type # "binomial" THEN {Raise(AucNotBinary)}
             ELSE {Return(Float(v)) : v \in LibScores}
      [] self.variant = "RegressionResult" /\ name = "auc" -> {Return(NaN)}
      [] OTHER -> {Return(Float(v)) : v \in LibScores}

\* Result.evaluate(metric): hasattr, then getattr(self, metric)(), else the
\* ValueError, whose message reads self.type.
evaluate(self, metric) ==
    IF hasattr(self, metric)
    THEN IF metric \in MetricFunctions THEN MetricCall(self, metric)
         ELSE IF metric \in InstanceAttrs(self)
              THEN {Raise(TypeErrorOf("object is not callable"))}
              ELSE {Raise(TypeErrorOf("missing 1 required positional argument"))}
    ELSE IF "type" \in InstanceAttrs(self)
         THEN {Raise(UnsupportedMetric(metric, self.type))}
         ELSE {Raise(AttributeErrorOf("type"))}

(***************************************************************************)
(* TaskResult                                                              *)
(***************************************************************************)

\* str.lower() over the characters of the model.
LowerChar(c) ==
    CASE c = "A" -> "a"
      [] c = "H" -> "h"
      [] c = "T" -> "t"
      [] OTHER -> c
Lower(str) == [i \in 1..Len(str) |-> LowerChar(str[i])]

\* str(n) and int(s) for a non-negative integer.
DigitChars == <<"0", "1", "2", "3", "4", "5", "6", "7", "8", "9">>
RECURSIVE IntStr(_)
IntStr(n) == IF n < 10 THEN <<DigitChars[n + 1]>>
             ELSE IntStr(n \div 10) \o <<DigitChars[(n % 10) + 1]>>
DigitValue(c) == CHOOSE d \in 0..9 : DigitChars[d + 1] = c
RECURSIVE StrInt(_)
StrInt(str) == IF Len(str) = 0 THEN 0
               ELSE 10 * StrInt(SubSeq(str, 1, Len(str) - 1)) + DigitValue(str[Len(str)])

IsDigits(str, first, last) ==
    /\ first <= last
    /\ \A i \in first..last : str[i] \in Digits

\* rconfig().predictions_dir
ConfigPredictionsDir == "predictions"

\* TaskResult.__init__
TaskResult(task_name, fold) ==
    [task |-> task_name, fold |-> fold, predictions_dir |-> ConfigPredictionsDir]

\* TaskResult._predictions_file
_predictions_file(self, framework_name) ==
    PathJoin(self.predictions_dir,
             Lower(framework_name) \o US \o self.task \o US \o IntStr(self.fold) \o DOT \o CSV)

\* The optional group (_(?P<datetime>\d{8}T\d{6}))? at position at.
DatetimeLen == 16
HasDatetime(b, at) ==
    /\ at >= 1
    /\ at + DatetimeLen - 1 <= Len(b)
    /\ HasLiteral(b, at, US)
    /\ IsDigits(b, at + 1, at + 8)
    /\ HasLiteral(b, at + 9, <<"T">>)
    /\ IsDigits(b, at + 10, at + 15)

\* re.fullmatch of
\*   (?P<framework>[\w\-]+?)_(?P<task>[\w\-]+)_(?P<fold>\d+)(_(?P<datetime>\d{8}T\d{6}))?.csv
\* The framework group is lazy (the shortest that lets the rest match), the
\* task group greedy (the longest), the fold runs to the datetime group or to
\* the tail.
MatchPredictions(b) ==
    LET foldEnds == {Len(b) - 4} \cup
                    {k \in {Len(b) - 4 - DatetimeLen} : k >= 1 /\ HasDatetime(b, k + 1)}
        splits == {ij \in (1..Len(b)) \X (1..Len(b)) :
                      /\ IsToken(b, 1, ij[1])
                      /\ HasLiteral(b, ij[1] + 1, US)
                      /\ IsToken(b, ij[1] + 2, ij[2])
                      /\ HasLiteral(b, ij[2] + 1, US)
                      /\ \E k \in foldEnds : IsDigits(b, ij[2] + 2, k)
                      /\ HasCsvTail(b, Len(b) - 4)}
    IN IF splits = {} THEN NoMatch
       ELSE LET i == SetMin({ij[1] : ij \in splits})
                j == SetMax({ij[2] : ij \in {x \in splits : x[1] = i}})
                k == SetMax({e \in foldEnds : IsDigits(b, j + 2, e)})
            IN MatchOf(("framework" :> SubSeq(b, 1, i)) @@
                       ("task" :> SubSeq(b, i + 2, j)) @@
                       ("fold" :> SubSeq(b, j + 2, k)))

\* A predictions artifact on disk: whether the file exists and how many
\* columns read_csv finds in it.
Missing == [exists |-> FALSE, ncols |-> 0]
Artifact(ncols) == [exists |-> TRUE, ncols |-> ncols]

\* TaskResult.load_predictions on the artifact at the path; id is the
\* identity of the object it constructs.
load_predictions(artifact, id) ==
    IF artifact.exists
    THEN IF artifact.ncols > 2
         THEN ClassificationResult(id, artifact.ncols)
         ELSE RegressionResult(id, artifact.ncols)
    ELSE NoResult(id)

\* utils.Namespace as compute_scores uses it: a mapping from key to value.
\* Metadata values are opaque.
Meta(name) == [t |-> "meta", n |-> 0, of |-> name]
NamespaceNew(framework_name, self) ==
    [k \in {"framework", "version", "task", "fold", "mode", "utc"} |->
        CASE k = "framework" -> [t |-> "meta", n |-> 0, of |-> framework_name]
          [] k = "task" -> [t |-> "meta", n |-> 0, of |-> self.task]
          [] k = "fold" -> [t |-> "meta", n |-> self.fold, of |-> <<>>]
          [] OTHER -> Meta(<<k>>)]
NamespaceSet(ns, key, value) ==
    [k \in DOMAIN ns \cup {key} |-> IF k = key THEN value ELSE ns[k]]

\* The loop of compute_scores over the metrics left: each metric's score is
\* stored under its name; the first error ends the call.
RECURSIVE EvaluateAll(_, _, _)
EvaluateAll(result, metrics, scores) ==
    IF metrics = <<>> THEN {Return(scores)}
    ELSE UNION {IF o.kind = "raise" THEN {o}
                ELSE EvaluateAll(result, Tail(metrics),
                                 NamespaceSet(scores, Head(metrics), o.value)) :
                    o \in evaluate(result, Head(metrics))}

\* A slip: the last metric taken for the primary one.
PrimaryMetric_last(metrics) == metrics[Len(metrics)]

\* scores.result = scores[metrics[0]]
PrimaryMetric(metrics) == metrics[1]

\* TaskResult.compute_scores with the Result already in hand (the `result`
\* argument, or what get_result returned).
compute_scores(self, framework_name, metrics, result) ==
    {IF o.kind = "raise" THEN o
     ELSE IF metrics = <<>> THEN Raise(IndexErrorOf("metrics[0]"))
     ELSE Return(NamespaceSet(o.value, "result", o.value[PrimaryMetric(metrics)])) :
        o \in EvaluateAll(result, metrics, NamespaceNew(framework_name, self))}

PyNone == [t |-> "None", n |-> 0]

\* result.metrics
GetMetrics(result) ==
    IF "metrics" \in InstanceAttrs(result) THEN Return(Result_metrics)
    ELSE Raise(AttributeErrorOf("metrics"))

\* TaskResult.score_from_predictions_file on a path with this basename, the
\* artifact at the path being as given.
score_from_predictions_file(basename, artifact, id) ==
    LET m == MatchPredictions(basename)
    IN IF ~m.ok THEN {Return(PyNone)}
       ELSE LET result == load_predictions(artifact, id)
                task_result == TaskResult(m.d["task"], StrInt(m.d["fold"]))
            IN IF result.kind = "raise" THEN {result}
               ELSE IF GetMetrics(result.value).kind = "raise"
                    THEN {GetMetrics(result.value)}
                    ELSE compute_scores(task_result, m.d["framework"],
                                        GetMetrics(result.value).value, result.value)

(***************************************************************************)
(* TaskResult and Result: state and operations                             *)
(***************************************************************************)

MaxFold == 0
MaxObjects == 2
MaxClasses == 2
MaxResults == 2
MaxMetrics == 2

TaskNames == {<<"t">>}
Folds == 0..MaxFold
Frameworks == {<<"h">>, <<"H">>}

\* The files of the predictions directory that the TaskResult objects name.
PredNames ==
    {_predictions_file(TaskResult(t, f), fw).basename :
        t \in TaskNames, f \in Folds, fw \in Frameworks}

\* The names given to score_from_predictions_file: those, one with the
\* datetime suffix, one that is not of the grammar.
DatetimeSuffix ==
    <<"_", "2", "0", "2", "3", "0", "1", "0", "1", "T", "1", "2", "0", "0", "0", "0">>
ScoreNames ==
    PredNames
    \cup {<<"h", "_", "t", "_", "0">> \o DatetimeSuffix \o DOT \o CSV}
    \cup {<<"h", "t">> \o DOT \o CSV}

\* Column counts of a predictions file: save_predictions writes one column per
\* class, then predictions and truth; a framework may leave any other file.
ColumnCounts == 0..(MaxClasses + 2)

\* The names evaluate is called with: the metric functions, a name that is no
\* attribute, and names of other attributes of the objects.
MetricNames ==
    MetricFunctions \cup {"f1", "truth", "df", "type", "metrics", "evaluate", "missing_result"}

RECURSIVE SeqsOf(_, _)
SeqsOf(S, n) ==
    IF n = 0 THEN {<<>>}
    ELSE SeqsOf(S, n - 1) \cup {Append(q, x) : q \in SeqsOf(S, n - 1), x \in S}

\* The metric lists compute_scores is called with.
MetricLists == SeqsOf(MetricFunctions \cup {"f1", "truth"}, MaxMetrics)

\* The metric lists of a benchmark definition, for compute_scores without a
\* `result` argument.
TaskMetricLists == {<<"acc">>, <<"auc", "acc">>}

FileAt(name) == IF name \in DOMAIN pred_fs THEN pred_fs[name] ELSE Missing

NoSubject == ResultObject(0, "none", "", 0)
NoCall == [op |-> "none", args |-> <<>>, out |-> Return(NoValue)]

TaskInit ==
    /\ pred_fs = [n \in PredNames |-> Missing]
    /\ tasks = <<TaskResult(<<"t">>, 0)>>
    /\ memo = <<>>
    /\ next_id = 1
    /\ called = {}
    /\ subject = NoSubject
    /\ ret = NoCall

\* The program is single-threaded: a call starts when the one before it has
\* returned to the caller.
Idle == ret = NoCall

\* The caller takes what the last call returned or raised.
Returned ==
    /\ ret # NoCall
    /\ ret' = NoCall
    /\ UNCHANGED <<pred_fs, tasks, memo, next_id, called, subject>>

\* TaskResult(task_name, fold)
TaskResultInit ==
    /\ Idle
    /\ Len(tasks) < MaxObjects
    /\ \E t \in TaskNames, f \in Folds : tasks' = Append(tasks, TaskResult(t, f))
    /\ UNCHANGED <<pred_fs, memo, next_id, called, subject, ret>>

\* A framework run leaves, replaces or removes a predictions file.
FrameworkOutput ==
    /\ Idle
    /\ \E n \in PredNames, a \in {Missing} \cup {Artifact(c) : c \in ColumnCounts} :
          /\ pred_fs[n] # a
          /\ pred_fs' = [pred_fs EXCEPT ![n] = a]
    /\ UNCHANGED <<tasks, memo, next_id, called, subject, ret>>

\* The identity of a Result that no table keeps.
Temporary == 0

\* TaskResult.load_predictions(path), called directly.
LoadPredictions ==
    /\ Idle
    /\ \E n \in PredNames :
          ret' = [op |-> "load_predictions",
                  args |-> [name |-> n, artifact |-> pred_fs[n]],
                  out |-> load_predictions(pred_fs[n], Temporary)]
    /\ UNCHANGED <<pred_fs, tasks, memo, next_id, called, subject>>

\* utils.memoize: the table is looked up by the call's arguments; a call that
\* raises stores nothing.
memoize_hit(table, key) == key \in DOMAIN table
memoize_store(table, key, out) ==
    IF out.kind = "return" THEN (key :> out.value) @@ table ELSE table

\* @memoize get_result(self, framework_name): what it returns and what it
\* leaves in the table; `loaded` tells that load_predictions ran.
get_result(i, framework_name) ==
    LET key == <<i, framework_name>>
    IN IF memoize_hit(memo, key)
       THEN [out |-> Return(memo[key]), memo |-> memo, loaded |-> FALSE]
       ELSE LET out == load_predictions(
                           FileAt(_predictions_file(tasks[i], framework_name).basename),
                           next_id)
            IN [out |-> out, memo |-> memoize_store(memo, key, out), loaded |-> TRUE]

\* The effect of a get_result call on the table, the identities and the
\* record of the keys called.
GetResultEffect(i, framework_name, r) ==
    /\ r.loaded => next_id <= MaxResults
    /\ memo' = r.memo
    /\ next_id' = IF r.loaded /\ r.out.kind = "return" THEN next_id + 1 ELSE next_id
    /\ called' = called \cup {<<i, framework_name>>}

\* task_result.get_result(framework_name)
GetResult ==
    /\ Idle
    /\ \E i \in 1..Len(tasks), fw \in Frameworks :
          LET r == get_result(i, fw)
          IN /\ GetResultEffect(i, fw, r)
             /\ ret' = [op |-> "get_result",
                        args |-> [self |-> i, framework |-> fw, loaded |-> r.loaded,
                                  first |-> <<i, fw>> \notin called],
                        out |-> r.out]
    /\ UNCHANGED <<pred_fs, tasks, subject>>

\* task_result.compute_scores(framework_name, metrics): result is None, so the
\* Result is get_result's.
ComputeScores ==
    /\ Idle
    /\ \E i \in 1..Len(tasks), fw \in Frameworks, metrics \in TaskMetricLists :
          LET r == get_result(i, fw)
          IN /\ GetResultEffect(i, fw, r)
             /\ \E out \in (IF r.out.kind = "raise" THEN {r.out}
                            ELSE compute_scores(tasks[i], fw, metrics, r.out.value)) :
                   ret' = [op |-> "compute_scores",
                           args |-> [self |-> i, framework |-> fw, metrics |-> metrics,
                                     result |-> IF r.out.kind = "raise" THEN NoSubject
                                                ELSE r.out.value],
                           out |-> out]
    /\ UNCHANGED <<pred_fs, tasks, subject>>

\* TaskResult.score_from_predictions_file(path)
ScoreFromPredictionsFile ==
    /\ Idle
    /\ \E n \in ScoreNames :
          \E out \in score_from_predictions_file(n, FileAt(n), Temporary) :
             ret' = [op |-> "score_from_predictions_file",
                     args |-> [name |-> n, matched |-> MatchPredictions(n).ok,
                               artifact |-> FileAt(n)],
                     out |-> out]
    /\ UNCHANGED <<pred_fs, tasks, memo, next_id, called, subject>>

\* result.evaluate(metric) on the Result the caller holds.
Evaluate ==
    /\ Idle
    /\ \E metric \in MetricNames : \E out \in evaluate(subject, metric) :
          ret' = [op |-> "evaluate", args |-> [self |-> subject, metric |-> metric],
                  out |-> out]
    /\ UNCHANGED <<pred_fs, tasks, memo, next_id, called, subject>>

\* task_result.compute_scores(framework_name, metrics, result=result) with the
\* Result the caller holds.
ComputeScoresWith ==
    /\ Idle
    /\ \E i \in 1..Len(tasks), fw \in Frameworks, metrics \in MetricLists :
       \E out \in compute_scores(tasks[i], fw, metrics, subject) :
          ret' = [op |-> "compute_scores",
                  args |-> [self |-> i, framework |-> fw, metrics |-> metrics,
                            result |-> subject],
                  out |-> out]
    /\ UNCHANGED <<pred_fs, tasks, memo, next_id, called, subject>>

\* The Results a caller can hold: NoResult(), or one the constructors build
\* from a frame of some column count.
Constructed ==
    {o.value : o \in {x \in {NoResult(Temporary)}
                           \cup {ClassificationResult(Temporary, c) : c \in ColumnCounts}
                           \cup {RegressionResult(Temporary, c) : c \in ColumnCounts} :
                        x.kind = "return"}}

EvalInit ==
    /\ pred_fs = [n \in PredNames |-> Missing]
    /\ tasks = <<TaskResult(<<"t">>, 0)>>
    /\ memo = <<>>
    /\ next_id = 1
    /\ called = {}
    /\ subject \in Constructed
    /\ ret = NoCall

(***************************************************************************)
(* Scoreboard: data frames, append and save                                *)
(***************************************************************************)

\* A cell of a frame or of a file: a column name (in a header), the value a
\* record holds for a column, or the NaN pandas fills a missing value with.
NameCell(col) == [k |-> "name", rec |-> 0, col |-> col]
ValueCell(rec, col) == [k |-> "value", rec |-> rec, col |-> col]
NaNCell == [k |-> "nan", rec |-> 0, col |-> ""]

\* fixed_cols of as_data_frame
fixed_cols == <<"task", "framework", "fold", "result", "mode", "version", "utc">>

\* The metric column names in the order list.sort() gives them.
SortedMetricCols == <<"acc", "auc", "logloss", "mse", "rmse">>

Range(q) == {q[i] : i \in 1..Len(q)}

\* The keys of a ScoreRecord in the order compute_scores sets them.
RecordKeys(metrics) ==
    <<"framework", "version", "task", "fold", "mode", "utc">> \o metrics \o <<"result">>

\* The raw score records boards are built from: record 1 was scored on
\* logloss, record 2 on logloss and acc.
RawRecord(id) ==
    [id |-> id, keys |-> RecordKeys(IF id = 1 THEN <<"logloss">> ELSE <<"logloss", "acc">>)]
RawRecords == {RawRecord(1), RawRecord(2)}

\* A frame: its columns in order, and its rows, each a mapping from the
\* frame's columns to cells.
Frame(columns, rows) == [columns |-> columns, rows |-> rows]

\* The columns of `more` that `columns` lacks, in their order.
NewColumns(columns, more) == SelectSeq(more, LAMBDA c : c \notin Range(columns))

RECURSIVE UnionColumns(_)
UnionColumns(keyLists) ==
    IF keyLists = <<>> THEN <<>>
    ELSE LET init == UnionColumns(SubSeq(keyLists, 1, Len(keyLists) - 1))
         IN init \o NewColumns(init, keyLists[Len(keyLists)])

\* A row over new columns: the cells it has, NaN elsewhere.
Reindexed(row, columns) ==
    [c \in Range(columns) |-> IF c \in DOMAIN row THEN row[c] ELSE NaNCell]

\* datautils.to_data_frame([dict(sc) for sc in scores])
to_data_frame(scores) ==
    LET columns == UnionColumns([i \in 1..Len(scores) |-> scores[i].keys])
    IN Frame(columns,
             [i \in 1..Len(scores) |->
                 Reindexed([c \in Range(scores[i].keys) |-> ValueCell(scores[i].id, c)],
                           columns)])

\* df.empty
IsEmptyFrame(df) == df.columns = <<>> \/ df.rows = <<>>

\* df.reindex(columns=columns)
Reindex(df, columns) ==
    Frame(columns, [i \in 1..Len(df.rows) |-> Reindexed(df.rows[i], columns)])

\* fixed_cols + sorted dynamic_cols
ColumnLayout(df) ==
    fixed_cols \o SelectSeq(SortedMetricCols,
                            LAMBDA c : c \in Range(df.columns) /\ c \notin Range(fixed_cols))

\* Scoreboard.as_data_frame; self.scores is a frame or a list of records.
as_data_frame(self) ==
    LET df == IF self.is_frame THEN self.scores ELSE to_data_frame(self.scores)
    IN IF IsEmptyFrame(df) THEN df ELSE Reindex(df, ColumnLayout(df))

\* A slip: rows already present are dropped from what is appended.
FrameAppend_dedup(df, other) ==
    LET columns == df.columns \o NewColumns(df.columns, other.columns)
        kept == SelectSeq(other.rows,
                          LAMBDA r : \A i \in 1..Len(df.rows) :
                                        Reindexed(df.rows[i], columns) # Reindexed(r, columns))
    IN Frame(columns,
             [i \in 1..Len(df.rows) |-> Reindexed(df.rows[i], columns)]
             \o [i \in 1..Len(kept) |-> Reindexed(kept[i], columns)])

\* DataFrame.append(other, sort=False): the columns of self, then the new
\* ones of other; the rows of self, then those of other.
FrameAppend(df, other) ==
    LET columns == df.columns \o NewColumns(df.columns, other.columns)
    IN Frame(columns,
             [i \in 1..Len(df.rows) |-> Reindexed(df.rows[i], columns)]
             \o [i \in 1..Len(other.rows) |-> Reindexed(other.rows[i], columns)])

\* Scoreboard(scores=scores, framework_name=..., ...): scores is given, so
\* nothing is loaded.
Scoreboard(scores, is_frame, sc) ==
    [scores |-> scores, is_frame |-> is_frame,
     framework_name |-> sc.framework_name, benchmark_name |-> sc.benchmark_name,
     task_name |-> sc.task_name, scores_dir |-> sc.scores_dir]

\* Scoreboard.append(board)
append(self, board) ==
    Scoreboard(FrameAppend(as_data_frame(self), as_data_frame(board)), TRUE, self)

\* A file of the scores directory: whether it exists, and its lines.
NoFile == [exists |-> FALSE, lines |-> <<>>]
FileOf(lines) == [exists |-> TRUE, lines |-> lines]
HeaderLine(columns) ==
    [kind |-> "header", cells |-> [i \in 1..Len(columns) |-> NameCell(columns[i])]]
RowLine(row, columns) ==
    [kind |-> "row", cells |-> [i \in 1..Len(columns) |-> row[columns[i]]]]

\* datautils.write_csv(df, file, header, index=False, append): the header line
\* if asked for, then one line per row; appended to the file or replacing it.
write_csv(df, file, header, appendTo) ==
    LET lines == (IF header THEN <<HeaderLine(df.columns)>> ELSE <<>>)
                 \o [i \in 1..Len(df.rows) |-> RowLine(df.rows[i], df.columns)]
    IN FileOf((IF appendTo THEN file.lines ELSE <<>>) \o lines)

\* utils.backup_file(path): the file's content is kept under a backup name.
backup_file(kept, file) == IF file.exists THEN kept \cup {file.lines} ELSE kept

\* new_format of save_df: the format change is not detected.
new_format == FALSE

\* A slip: the backup taken when appending instead of when overwriting.
NeedsBackup_on_append(exists, appendFlag) == new_format \/ (exists /\ appendFlag)

\* save_df: new_format or (exists and not append)
NeedsBackup(exists, appendFlag) == new_format \/ (exists /\ ~appendFlag)

\* save_df: new_file = not exists or not append or new_format
IsNewFile(exists, appendFlag) == ~exists \/ ~appendFlag \/ new_format

\* Scoreboard.save_df(data_frame, path, append): the file and the backups after it.
save_df(data_frame, file, kept, appendFlag) ==
    LET exists == file.exists
        new_file == IsNewFile(exists, appendFlag)
    IN [file |-> write_csv(data_frame, file, new_file, ~new_file),
        backups |-> IF NeedsBackup(exists, appendFlag) THEN backup_file(kept, file) ELSE kept]

MaxRows == 2
MaxSaves == 3
MaxBoards == 3

\* The scopes of the boards: the global one and one framework's.
GlobalScope == ScoreboardScope(None, None, None, ConfigScoresDir)
FrameworkScope == ScoreboardScope(Str(<<"a">>), None, None, ConfigScoresDir)
BoardScopes == {GlobalScope, FrameworkScope}

ScoreFileNames == {_score_file(sc).basename : sc \in BoardScopes}

\* The boards built from raw records: Scoreboard(scores=[...], ...).
RecordLists == SeqsOf(RawRecords, MaxRows)
BoardsOf(sc) == {Scoreboard(l, FALSE, sc) : l \in RecordLists}

\* The records of a board, in order: each row's cells that hold a value.
Records(board) ==
    LET df == as_data_frame(board)
    IN [i \in 1..Len(df.rows) |->
           {df.rows[i][c] : c \in {x \in Range(df.columns) : df.rows[i][x] # NaNCell}}]

NoBoardCall == [op |-> "none"]

SaveInit ==
    /\ score_fs = [n \in ScoreFileNames |-> NoFile]
    /\ backups = [n \in ScoreFileNames |-> {}]
    /\ boards = <<>>
    /\ saves = 0
    /\ bret = NoBoardCall

\* Scoreboard(scores=records, framework_name='a').save(append)
Save ==
    /\ saves < MaxSaves
    /\ \E self \in BoardsOf(FrameworkScope), appendFlag \in BOOLEAN :
          LET name == _score_file(self).basename
              r == save_df(as_data_frame(self), score_fs[name], backups[name], appendFlag)
          IN /\ score_fs' = [score_fs EXCEPT ![name] = r.file]
             /\ backups' = [backups EXCEPT ![name] = r.backups]
             /\ bret' = [op |-> "save", name |-> name, append |-> appendFlag,
                         before |-> score_fs[name]]
    /\ saves' = saves + 1
    /\ UNCHANGED boards

AppendInit ==
    /\ score_fs = [n \in ScoreFileNames |-> NoFile]
    /\ backups = [n \in ScoreFileNames |-> {}]
    /\ \E s1 \in BoardScopes, s2 \in BoardScopes :
          \E b1 \in BoardsOf(s1), b2 \in BoardsOf(s2) : boards = <<b1, b2>>
    /\ saves = 0
    /\ bret = NoBoardCall

\* boards[i].append(boards[j]); the new Scoreboard is kept.
BoardAppend ==
    /\ Len(boards) < MaxBoards
    /\ \E i \in 1..Len(boards), j \in 1..Len(boards) :
          /\ boards' = Append(boards, append(boards[i], boards[j]))
          /\ bret' = [op |-> "append", self |-> i, other |-> j, new |-> Len(boards) + 1,
                      self_before |-> boards[i], fs_before |-> score_fs]
    /\ UNCHANGED <<score_fs, backups, saves>>

(***************************************************************************)
(* Specifications                                                          *)
(***************************************************************************)

BoardIdle ==
    /\ score_fs = <<>>
    /\ backups = <<>>
    /\ boards = <<>>
    /\ saves = 0
    /\ bret = NoBoardCall

NamesIdle ==
    /\ scope = ScoreboardScope(None, None, None, ConfigScoresDir)
    /\ score_path = NoPath
    /\ resolved = NotCalled

TaskIdle ==
    /\ pred_fs = <<>>
    /\ tasks = <<>>
    /\ memo = <<>>
    /\ next_id = 1
    /\ called = {}
    /\ subject = NoSubject
    /\ ret = NoCall

InitNames == NamesInit /\ TaskIdle /\ BoardIdle
NextNames ==
    \/ ScoreFile /\ UNCHANGED <<taskVars, boardVars>>
    \/ FromFile /\ UNCHANGED <<taskVars, boardVars>>
SpecNames == InitNames /\ [][NextNames]_vars

InitTask == NamesIdle /\ TaskInit /\ BoardIdle
NextTask ==
    \/ TaskResultInit /\ UNCHANGED <<nameVars, boardVars>>
    \/ FrameworkOutput /\ UNCHANGED <<nameVars, boardVars>>
    \/ LoadPredictions /\ UNCHANGED <<nameVars, boardVars>>
    \/ GetResult /\ UNCHANGED <<nameVars, boardVars>>
    \/ ComputeScores /\ UNCHANGED <<nameVars, boardVars>>
    \/ ScoreFromPredictionsFile /\ UNCHANGED <<nameVars, boardVars>>
    \/ Returned /\ UNCHANGED <<nameVars, boardVars>>
SpecTask == InitTask /\ [][NextTask]_vars

InitEval == NamesIdle /\ EvalInit /\ BoardIdle
NextEval ==
    \/ Evaluate /\ UNCHANGED <<nameVars, boardVars>>
    \/ ComputeScoresWith /\ UNCHANGED <<nameVars, boardVars>>
    \/ Returned /\ UNCHANGED <<nameVars, boardVars>>
SpecEval == InitEval /\ [][NextEval]_vars

InitSave == NamesIdle /\ TaskIdle /\ SaveInit
NextSave == Save /\ UNCHANGED <<nameVars, taskVars>>
SpecSave == InitSave /\ [][NextSave]_vars

InitAppend == NamesIdle /\ TaskIdle /\ AppendInit
NextAppend == BoardAppend /\ UNCHANGED <<nameVars, taskVars>>
SpecAppend == InitAppend /\ [][NextAppend]_vars

(***************************************************************************)
(* Claims on scoring and metric dispatch                                   *)
(***************************************************************************)

ScoresReturned == ret.op = "compute_scores" /\ ret.out.kind = "return"

\* C2 as stated: for every ScoreRecord compute_scores returns, the result
\* field equals (Python's ==) the record's value for metrics[0], whatever the
\* value is: a number, NaN or 'NA'.
C2_ResultEqualsPrimary ==
    ScoresReturned =>
        PyEq(ret.out.value["result"], ret.out.value[ret.args.metrics[1]])

\* C2 amended: the result field holds the very value stored for metrics[0],
\* and the two compare equal unless that value is NaN.
C2_ResultMirrorsPrimary ==
    ScoresReturned =>
        LET r == ret.out.value["result"]
            p == ret.out.value[ret.args.metrics[1]]
        IN /\ r = p
           /\ (p.t # "nan" => PyEq(r, p))

\* A record of two metrics with different values was returned.
C2_Witness ==
    /\ ScoresReturned
    /\ Len(ret.args.metrics) = 2
    /\ ret.out.value[ret.args.metrics[1]] # ret.out.value[ret.args.metrics[2]]
    /\ ret.out.value["result"] = ret.out.value[ret.args.metrics[1]]

EvaluatedNoResult == ret.op = "evaluate" /\ ret.args.self.variant = "NoResult"

C5_UnsupportedMetricTypedError ==
    (ret.op = "evaluate" /\ ret.args.metric \notin {"acc", "logloss", "mse", "rmse", "auc"}) =>
        ret.out = Raise(UnsupportedMetric(ret.args.metric, ret.args.self.type))

(***************************************************************************)
(* Claims on loading and memoised results                                  *)
(***************************************************************************)

\* C3: score_from_predictions_file on a name of the grammar whose file is
\* missing does not raise: it returns a record whose metric values, and
\* result, are all 'NA'.
C3_MissingArtifactScoresNA ==
    (/\ ret.op = "score_from_predictions_file"
     /\ ret.args.matched
     /\ ~ret.args.artifact.exists) =>
        /\ ret.out.kind = "return"
        /\ \A m \in {"acc", "logloss", "mse", "rmse", "auc", "result"} :
              ret.out.value[m] = NA

\* C7: load_predictions never raises for an existing artifact: it returns a
\* ClassificationResult for more than 2 columns, a RegressionResult otherwise.
C7_LoadDecidesByShape ==
    (ret.op = "load_predictions" /\ ret.args.artifact.exists) =>
        /\ ret.out.kind = "return"
        /\ ret.out.value.variant =
              IF ret.args.artifact.ncols > 2 THEN "ClassificationResult"
              ELSE "RegressionResult"

\* C9: for one TaskResult object and one framework name, the first
\* get_result call loads the artifact and every later call returns that same
\* Result without loading again; no two keys share a Result.
C9_GetResultLoadsOnce ==
    /\ ret.op = "get_result" =>
          LET key == <<ret.args.self, ret.args.framework>>
          IN IF ret.args.first THEN ret.args.loaded
             ELSE /\ ~ret.args.loaded
                  /\ ret.out.kind = "return"
                  /\ ret.out.value = memo[key]
    /\ \A k1 \in DOMAIN memo, k2 \in DOMAIN memo :
          k1 # k2 => memo[k1].id # memo[k2].id

(***************************************************************************)
(* Claims on the Scoreboard                                                *)
(***************************************************************************)

OverwroteExisting == bret.op = "save" /\ ~bret.append /\ bret.before.exists

\* C1: a save(append=False) made while the scope's file existed leaves the
\* content the file held just before the call among the backups.
C1_OverwriteKeepsBackup ==
    OverwroteExisting => bret.before.lines \in backups[bret.name]

\* A non-append save replaced a file by different content, and the old
\* content is among the backups.
C1_Witness ==
    /\ OverwroteExisting
    /\ score_fs[bret.name].lines # bret.before.lines
    /\ bret.before.lines # <<>>
    /\ bret.before.lines \in backups[bret.name]

SameScope(a, b) ==
    /\ a.framework_name = b.framework_name
    /\ a.benchmark_name = b.benchmark_name
    /\ a.task_name = b.task_name
    /\ a.scores_dir = b.scores_dir

\* C8: append returns a new Scoreboard of the same scope whose records are
\* self's followed by other's, in order, none removed or merged; self and the
\* scope's file are as before the call.
C8_AppendConcatenates ==
    bret.op = "append" =>
        /\ Records(boards[bret.new]) =
              Records(bret.self_before) \o Records(boards[bret.other])
        /\ SameScope(boards[bret.new], bret.self_before)
        /\ boards[bret.self] = bret.self_before
        /\ score_fs = bret.fs_before

\* Two boards holding different records were appended.
C8_Witness ==
    /\ bret.op = "append"
    /\ Len(Records(boards[bret.self])) = 1
    /\ Len(Records(boards[bret.new])) = 2
    /\ Records(boards[bret.new])[1] # Records(boards[bret.new])[2]
    /\ Records(boards[bret.new])[1] = Records(boards[bret.self])[1]

\* The header the spec gives a scores file: the fixed columns, then metric
\* columns in sorted order.
HeaderCanonical(line) ==
    /\ line.kind = "header"
    /\ \E M \in SUBSET Range(SortedMetricCols) :
          line = HeaderLine(fixed_cols \o SelectSeq(SortedMetricCols, LAMBDA c : c \in M))

\* A data row whose values stand under the columns the header names.
Aligned(row, header) ==
    /\ row.kind = "row"
    /\ Len(row.cells) = Len(header.cells)
    /\ \A i \in 1..Len(row.cells) :
          row.cells[i] = NaNCell \/ row.cells[i].col = header.cells[i].col

\* C10: after any sequence of saves the scope's file starts with exactly one
\* header row, fixed columns then sorted metric columns, and every data row
\* has its values under the columns the header names.
C10_FileWellFormed ==
    \A n \in DOMAIN score_fs :
        score_fs[n].exists =>
            /\ Len(score_fs[n].lines) >= 1
            /\ HeaderCanonical(score_fs[n].lines[1])
            /\ \A i \in 2..Len(score_fs[n].lines) :
                  Aligned(score_fs[n].lines[i], score_fs[n].lines[1])

====
